---- MODULE Spec2Model ----
(***************************************************************************)
(* pyTAB (src/pytab/core.py): the worker ramp of benchmark() and the       *)
(* verify-or-refetch artifact acquisition of obtainSource().               *)
(*                                                                         *)
(* Speeds are the worker's floating point speed factors in tenths          *)
(* (10 is real time, 1.0).  A file's content is a sequence of blocks, the  *)
(* units calculate_sha256 reads it in.                                     *)
(***************************************************************************)
EXTENDS Integers, Sequences, FiniteSets, TLC

VARIABLES
    \* benchmark(): its locals, its position and what it returned
    runs, total_workers, run, last_Speed, failure_reason, bpc, ret,
    \* the invocations of worker.workMan made so far: [n, out]
    calls,
    \* obtainSource(): the artifact's hash descriptor and notify flag, the file
    \* at file_path, the target directory, and the records of the last call
    \* and of the one before it
    source_hashs, notify, file, dirExists, ncalls, last, prev,
    \* unpackArchive(): the archive, the target directory before and after
    \* the call, and how the call ended
    archive, target_before, target_dir, upc,
    \* cli(): its position, the server's test data, the files on disk by
    \* artifact (0 the ffmpeg bundle, i the i-th test file), the ffmpeg_files
    \* directory as found and as it is, the three loop positions, the
    \* benchmark_data list and the report written
    cpc, server_data, disk, ffmpeg_files_before, ffmpeg_files, fi, ti, ki,
    benchmark_data, report,
    \* what the session did so far: its obtainSource calls, whether it
    \* unpacked, the user's answer, its workMan calls, each ramp's invocations
    acquired, unpacked, confirm, invocations, ramplog

rampVars == <<runs, total_workers, run, last_Speed, failure_reason, bpc, ret, calls>>
acqVars == <<source_hashs, notify, file, dirExists, ncalls, last, prev>>
unpackVars == <<archive, target_before, target_dir, upc>>
cliVars ==
    <<cpc, server_data, disk, ffmpeg_files_before, ffmpeg_files, fi, ti, ki,
      benchmark_data, report, acquired, unpacked, confirm, invocations, ramplog>>
vars == <<rampVars, acqVars, unpackVars, cliVars>>

(***************************************************************************)
(* Bounds                                                                  *)
(***************************************************************************)
\* the ramp is cut off after this many worker invocations
MaxWorkers == 4
\* obtainSource calls made on the one file_path
MaxCalls == 2
\* a ramp of a whole session is cut off after this many worker invocations
MaxSessionWorkers == 2

(***************************************************************************)
(* The worker primitive, worker.workMan(total_workers, ffmpeg_cmd)         *)
(***************************************************************************)
\* speed 1.0, the bound of line 164
RealTime == 10
Speeds == {6, 10, 15}
RssValues == {100, 200}
ErrorDetails == {"launch failure", "parse failure"}

\* What one invocation measures: an error with its detail (and whatever
\* speed the run had reached), or a sample.
WorkerOutcomes ==
    {[failed |-> TRUE, detail |-> d, speed |-> s, rss_kb |-> 100] :
        d \in ErrorDetails, s \in {6, 15}}
    \cup {[failed |-> FALSE, detail |-> "", speed |-> s, rss_kb |-> r] :
        s \in Speeds, r \in RssValues}

\* The tuple workMan returns: (True, detail) or (False, sample), the sample
\* carrying the worker count it was asked to run.
workMan(worker_count, o) ==
    IF o.failed
    THEN <<TRUE, o.detail>>
    ELSE <<FALSE, [workers |-> worker_count, speed |-> o.speed, rss_kb |-> o.rss_kb]>>

(***************************************************************************)
(* benchmark()                                                             *)
(***************************************************************************)
NoReturn == <<"none">>

benchmark_locals ==
    [runs |-> runs, total_workers |-> total_workers, run |-> run,
     last_Speed |-> last_Speed, failure_reason |-> failure_reason]

\* a loop body that repeats the worker count
benchmark_loop_norise(st, output) ==
    IF output[1]
    THEN [st EXCEPT !.run = FALSE, !.failure_reason = Append(@, output[2])]
    ELSE IF output[2].speed < RealTime
    THEN [st EXCEPT !.run = FALSE, !.failure_reason = Append(@, "performance")]
    ELSE [st EXCEPT !.runs = Append(@, output[2]),
                    !.last_Speed = output[2].speed]

\* a loop body that records the sample of the step that was too slow
benchmark_loop_keepslow(st, output) ==
    IF output[1]
    THEN [st EXCEPT !.run = FALSE, !.failure_reason = Append(@, output[2])]
    ELSE IF output[2].speed < RealTime
    THEN [st EXCEPT !.run = FALSE, !.failure_reason = Append(@, "performance"),
                    !.runs = Append(@, output[2])]
    ELSE [st EXCEPT !.runs = Append(@, output[2]),
                    !.total_workers = @ + 1,
                    !.last_Speed = output[2].speed]

\* a loop body that raises the worker count by two
benchmark_loop_skip(st, output) ==
    IF output[1]
    THEN [st EXCEPT !.run = FALSE, !.failure_reason = Append(@, output[2])]
    ELSE IF output[2].speed < RealTime
    THEN [st EXCEPT !.run = FALSE, !.failure_reason = Append(@, "performance")]
    ELSE [st EXCEPT !.runs = Append(@, output[2]),
                    !.total_workers = @ + 2,
                    !.last_Speed = output[2].speed]

\* a loop body that reports every stop as a performance stop
benchmark_loop_perf(st, output) ==
    IF output[1]
    THEN [st EXCEPT !.run = FALSE, !.failure_reason = Append(@, "performance")]
    ELSE IF output[2].speed < RealTime
    THEN [st EXCEPT !.run = FALSE, !.failure_reason = Append(@, "performance")]
    ELSE [st EXCEPT !.runs = Append(@, output[2]),
                    !.total_workers = @ + 1,
                    !.last_Speed = output[2].speed]

\* a loop body that stops on an error only
benchmark_loop_erroronly(st, output) ==
    IF output[1]
    THEN [st EXCEPT !.run = FALSE, !.failure_reason = Append(@, output[2])]
    ELSE [st EXCEPT !.runs = Append(@, output[2]),
                    !.total_workers = @ + 1,
                    !.last_Speed = output[2].speed]

\* lines 160-174: the body of the while loop, on workMan's output
benchmark_loop(st, output) ==
    IF output[1]
    THEN [st EXCEPT !.run = FALSE, !.failure_reason = Append(@, output[2])]
    ELSE IF output[2].speed < RealTime
    THEN [st EXCEPT !.run = FALSE, !.failure_reason = Append(@, "performance")]
    ELSE [st EXCEPT !.runs = Append(@, output[2]),
                    !.total_workers = @ + 1,
                    !.last_Speed = output[2].speed]

\* a summary that reports the worker count the loop stopped at
benchmark_result_failedstep(st) ==
    IF Len(st.runs) > 0
    THEN <<TRUE, st.runs,
           [max_streams |-> st.total_workers,
            failure_reasons |-> st.failure_reason,
            single_worker_speed |-> st.runs[Len(st.runs)].speed,
            single_worker_rss_kb |-> st.runs[Len(st.runs)].rss_kb]>>
    ELSE <<FALSE, st.runs, <<>>>>

\* a summary that needs two samples to be valid
benchmark_result_two(st) ==
    IF Len(st.runs) > 1
    THEN <<TRUE, st.runs,
           [max_streams |-> st.runs[Len(st.runs)].workers,
            failure_reasons |-> st.failure_reason,
            single_worker_speed |-> st.runs[Len(st.runs)].speed,
            single_worker_rss_kb |-> st.runs[Len(st.runs)].rss_kb]>>
    ELSE <<FALSE, st.runs, <<>>>>

\* a summary that takes the single-worker fields from the first sample
benchmark_result_first(st) ==
    IF Len(st.runs) > 0
    THEN <<TRUE, st.runs,
           [max_streams |-> st.runs[Len(st.runs)].workers,
            failure_reasons |-> st.failure_reason,
            single_worker_speed |-> st.runs[1].speed,
            single_worker_rss_kb |-> st.runs[1].rss_kb]>>
    ELSE <<FALSE, st.runs, <<>>>>

\* lines 177-186: (valid, runs, result); the empty dict {} is <<>>
benchmark_result(st) ==
    IF Len(st.runs) > 0
    THEN <<TRUE, st.runs,
           [max_streams |-> st.runs[Len(st.runs)].workers,
            failure_reasons |-> st.failure_reason,
            single_worker_speed |-> st.runs[Len(st.runs)].speed,
            single_worker_rss_kb |-> st.runs[Len(st.runs)].rss_kb]>>
    ELSE <<FALSE, st.runs, <<>>>>

\* lines 149-153
RampInit ==
    /\ runs = <<>>
    /\ total_workers = 1
    /\ run = TRUE
    /\ last_Speed = -5
    /\ failure_reason = <<>>
    /\ bpc = "loop"
    /\ ret = NoReturn
    /\ calls = <<>>

\* lines 158-175: one pass of the loop, around one blocking workMan call
BenchmarkStep ==
    /\ bpc = "loop"
    /\ run
    /\ total_workers <= MaxWorkers
    /\ \E o \in WorkerOutcomes :
        LET st == benchmark_loop(benchmark_locals, workMan(total_workers, o))
        IN  /\ runs' = st.runs
            /\ total_workers' = st.total_workers
            /\ run' = st.run
            /\ last_Speed' = st.last_Speed
            /\ failure_reason' = st.failure_reason
            /\ calls' = Append(calls, [n |-> total_workers, out |-> o])
    /\ UNCHANGED <<bpc, ret>>

\* lines 176-186: the loop has ended, the result is built and returned
BenchmarkReturn ==
    /\ bpc = "loop"
    /\ ~run
    /\ ret' = benchmark_result(benchmark_locals)
    /\ bpc' = "returned"
    /\ UNCHANGED <<runs, total_workers, run, last_Speed, failure_reason, calls>>

(***************************************************************************)
(* Files, digests and hash descriptors                                     *)
(***************************************************************************)
\* Python's None
None == "None"

\* file contents, as the blocks calculate_sha256 reads
Contents == {<<>>, <<1>>, <<2>>, <<1, 2>>}

AbsentFile == [exists |-> FALSE, content |-> <<>>]
FileOf(c) == [exists |-> TRUE, content |-> c]

\* lines 73-80: the hex digest of a file's content, one per content (the
\* digests of b"", b"\x01", b"\x02" and b"\x01\x02")
calculate_sha256(content) ==
    CASE content = <<>> -> "e3b0c442"
      [] content = <<1>> -> "4bf5122f"
      [] content = <<2>> -> "dbc1b4c9"
      [] content = <<1, 2>> -> "a12871fe"

\* the digests a server offers for sha256: of <<1, 2>>, of <<2>>, of no content
OfferedDigests == {"a12871fe", "dbc1b4c9", "ffffffff"}

\* hash_dict: a dict, in insertion order, of (algorithm, expected digest)
HashDicts ==
    {<<>>, << <<"md5", "9e107d9d">> >>}
    \cup { << <<"sha256", d>> >> : d \in OfferedDigests }
    \cup { << <<"sha256", d>>, <<"md5", "9e107d9d">> >> : d \in OfferedDigests }
    \cup { << <<"md5", "9e107d9d">>, <<"sha256", d>> >> : d \in OfferedDigests }

\* line 48
supported_hashes == <<"sha256">>

InList(x, list) == \E i \in 1..Len(list) : list[i] = x

Min(S) == CHOOSE x \in S : \A y \in S : x <= y

\* a negotiator that takes the descriptor's first entry, supported or not
match_hash_first(hash_dict, output) ==
    IF hash_dict = <<>>
    THEN [alg |-> None, digest |-> None,
          echo |-> IF output
                   THEN << <<"Note: This file cannot be hash-verified!">> >>
                   ELSE <<>>]
    ELSE [alg |-> hash_dict[1][1], digest |-> hash_dict[1][2],
          echo |-> IF output
                   THEN << <<"Note: Compatible hashing method found. Using", hash_dict[1][1]>> >>
                   ELSE <<>>]

\* lines 47-70: (algorithm, expected digest) and what is echoed
match_hash(hash_dict, output) ==
    IF hash_dict = <<>>
    THEN [alg |-> None, digest |-> None,
          echo |-> IF output
                   THEN << <<"Note: This file cannot be hash-verified!">> >>
                   ELSE <<>>]
    ELSE LET hits == {i \in 1..Len(hash_dict) : InList(hash_dict[i][1], supported_hashes)}
         IN  IF hits # {}
             THEN LET hash == hash_dict[Min(hits)]
                  IN  [alg |-> hash[1], digest |-> hash[2],
                       echo |-> IF output
                                THEN << <<"Note: Compatible hashing method found. Using", hash[1]>> >>
                                ELSE <<>>]
             ELSE [alg |-> None, digest |-> None,
                   echo |-> IF output
                            THEN << <<"Note: This Client cannot hash-verify this file!">> >>
                            ELSE <<>>]

(***************************************************************************)
(* The remote, as one GET of source_url and the write of its body answer   *)
(***************************************************************************)
StrictPrefixes(c) == {SubSeq(c, 1, n) : n \in 0..(Len(c) - 1)}

\* fault: "transport" (reqGet raises), "open" (open raises), "write"
\* (f.write raises with `written` on disk), or "none"
Responses ==
    {[fault |-> "transport", status_code |-> 0, content |-> <<>>, written |-> <<>>]}
    \cup {[fault |-> "none", status_code |-> s, content |-> <<>>, written |-> <<>>] :
            s \in {404, 500}}
    \cup {[fault |-> "none", status_code |-> 200, content |-> c, written |-> c] :
            c \in Contents}
    \cup {[fault |-> "open", status_code |-> 200, content |-> <<1, 2>>, written |-> <<>>]}
    \cup {r \in [fault : {"write"}, status_code : {200}, content : Contents,
                  written : Contents] : r.written \in StrictPrefixes(r.content)}

NoResponse == [fault |-> "unused", status_code |-> 0, content |-> <<>>, written |-> <<>>]

(***************************************************************************)
(* obtainSource()                                                          *)
(***************************************************************************)
\* line 90: the one path the calls of this model resolve to
file_path == "target_path/filename"

\* an existing-file check that accepts the file without comparing digests
obtainSource_existing_nocheck(f, m) ==
    IF f.exists
    THEN LET existing_checksum ==
                 IF m.alg = "sha256" THEN calculate_sha256(f.content) ELSE None
         IN  [returned |-> TRUE, file |-> f,
              hashes |-> IF m.alg = "sha256" THEN 1 ELSE 0, removes |-> 0]
    ELSE [returned |-> FALSE, file |-> f, hashes |-> 0, removes |-> 0]

\* an existing-file check that never reuses the file
obtainSource_existing_refetch(f, m) ==
    IF f.exists
    THEN [returned |-> FALSE, file |-> AbsentFile,
          hashes |-> IF m.alg = "sha256" THEN 1 ELSE 0, removes |-> 1]
    ELSE [returned |-> FALSE, file |-> f, hashes |-> 0, removes |-> 0]

\* lines 92-100: the file already at file_path is returned, or removed
obtainSource_existing(f, m) ==
    IF f.exists
    THEN LET existing_checksum ==
                 IF m.alg = "sha256" THEN calculate_sha256(f.content) ELSE None
             hashes == IF m.alg = "sha256" THEN 1 ELSE 0
         IN  IF existing_checksum = m.digest \/ m.digest = None
             THEN [returned |-> TRUE, file |-> f, hashes |-> hashes, removes |-> 0]
             ELSE [returned |-> FALSE, file |-> AbsentFile, hashes |-> hashes,
                   removes |-> 1]
    ELSE [returned |-> FALSE, file |-> f, hashes |-> 0, removes |-> 0]

\* a download that writes the body whatever the status code
obtainSource_download_nostatus(f, response) ==
    CASE response.fault = "transport" ->
            [at |-> "fault", ret |-> <<FALSE, "Unknown Error!">>, file |-> f]
      [] response.fault = "open" ->
            [at |-> "fault", ret |-> <<FALSE, "Unknown Error!">>, file |-> f]
      [] response.fault = "write" ->
            [at |-> "fault", ret |-> <<FALSE, "Unknown Error!">>,
             file |-> FileOf(response.written)]
      [] OTHER ->
            [at |-> "", ret |-> <<TRUE, file_path>>, file |-> FileOf(response.content)]

\* lines 109-119: the GET and the write of its body; `at` names the return
\* statement taken, "" when the function goes on to line 120
obtainSource_download(f, response) ==
    CASE response.fault = "transport" ->
            [at |-> "fault", ret |-> <<FALSE, "Unknown Error!">>, file |-> f]
      [] response.fault # "transport" /\ response.status_code # 200 ->
            [at |-> "status", ret |-> <<FALSE, response.status_code>>, file |-> f]
      [] response.fault = "open" /\ response.status_code = 200 ->
            [at |-> "fault", ret |-> <<FALSE, "Unknown Error!">>, file |-> f]
      [] response.fault = "write" /\ response.status_code = 200 ->
            [at |-> "fault", ret |-> <<FALSE, "Unknown Error!">>,
             file |-> FileOf(response.written)]
      [] OTHER ->
            [at |-> "", ret |-> <<TRUE, file_path>>, file |-> FileOf(response.content)]

\* a verification that leaves the rejected download in place
obtainSource_verify_keep(f, m) ==
    LET downloaded_checksum == calculate_sha256(f.content)
    IN  IF downloaded_checksum = m.digest \/ m.digest = None
        THEN [at |-> "downloaded", ret |-> <<TRUE, file_path>>, file |-> f,
              hashes |-> 1, removes |-> 0]
        ELSE [at |-> "checksum", ret |-> <<FALSE, "Invalid Checksum!">>,
              file |-> f, hashes |-> 1, removes |-> 0]

\* a verification that rejects a download it has no digest for
obtainSource_verify_strict(f, m) ==
    LET downloaded_checksum == calculate_sha256(f.content)
    IN  IF downloaded_checksum = m.digest
        THEN [at |-> "downloaded", ret |-> <<TRUE, file_path>>, file |-> f,
              hashes |-> 1, removes |-> 0]
        ELSE [at |-> "checksum", ret |-> <<FALSE, "Invalid Checksum!">>,
              file |-> AbsentFile, hashes |-> 1, removes |-> 1]

\* lines 120-125: the downloaded file is returned, or removed
obtainSource_verify(f, m) ==
    LET downloaded_checksum == calculate_sha256(f.content)
    IN  IF downloaded_checksum = m.digest \/ m.digest = None
        THEN [at |-> "downloaded", ret |-> <<TRUE, file_path>>, file |-> f,
              hashes |-> 1, removes |-> 0]
        ELSE [at |-> "checksum", ret |-> <<FALSE, "Invalid Checksum!">>,
              file |-> AbsentFile, hashes |-> 1, removes |-> 1]

\* lines 83-125: the call on the file `f` at file_path, with the target
\* directory present or not, against a remote that answers `response`
obtainSource(f, dir, hash_dict, notify_on_download, response) ==
    LET m == match_hash(hash_dict, notify_on_download)
        e == obtainSource_existing(f, m)
    IN  IF e.returned
        THEN [at |-> "cached", ret |-> <<TRUE, file_path>>, file |-> e.file,
              dir |-> dir, gets |-> 0, response |-> NoResponse,
              hashes |-> e.hashes, removes |-> e.removes, removes_stale |-> e.removes,
              negotiated |-> <<m.alg, m.digest>>, echo |-> m.echo]
        ELSE
            LET d == obtainSource_download(e.file, response)
                downloading == IF notify_on_download
                               THEN << <<"Downloading file...">> >> ELSE <<>>
                success == IF notify_on_download /\ d.at = ""
                           THEN << <<" success!">> >> ELSE <<>>
            IN  IF d.at # ""
                THEN [at |-> d.at, ret |-> d.ret, file |-> d.file, dir |-> TRUE,
                      gets |-> 1, response |-> response,
                      hashes |-> e.hashes, removes |-> e.removes,
                      removes_stale |-> e.removes,
                      negotiated |-> <<m.alg, m.digest>>,
                      echo |-> m.echo \o downloading]
                ELSE
                    LET v == obtainSource_verify(d.file, m)
                    IN  [at |-> v.at, ret |-> v.ret, file |-> v.file, dir |-> TRUE,
                         gets |-> 1, response |-> response,
                         hashes |-> e.hashes + v.hashes,
                         removes |-> e.removes + v.removes,
                         removes_stale |-> e.removes,
                         negotiated |-> <<m.alg, m.digest>>,
                         echo |-> m.echo \o downloading \o success]

\* the artifact's hash descriptor and notify flag, as the server and the
\* caller give them; the file system any earlier run may have left
AcquireInit ==
    /\ source_hashs \in HashDicts
    /\ notify \in BOOLEAN
    /\ file \in {AbsentFile} \cup {FileOf(c) : c \in Contents}
    /\ dirExists \in BOOLEAN
    /\ file.exists => dirExists
    /\ ncalls = 0
    /\ last = [pre |-> file, res |-> <<>>]
    /\ prev = [pre |-> file, res |-> <<>>]

\* one call of obtainSource for the artifact, against what the remote and
\* the disk do during it
ObtainSourceCall ==
    /\ ncalls < MaxCalls
    /\ \E response \in Responses :
        LET res == obtainSource(file, dirExists, source_hashs, notify, response)
        IN  /\ file' = res.file
            /\ dirExists' = res.dir
            /\ last' = [pre |-> file, res |-> res]
    /\ prev' = last
    /\ ncalls' = ncalls + 1
    /\ UNCHANGED <<source_hashs, notify>>

(***************************************************************************)
(* unpackArchive()                                                         *)
(***************************************************************************)
\* A path is its name followed by its dot-suffixes; a directory is the set
\* of its entries, each a name and where its content came from.
EndsWith(path, suffix) ==
    /\ Len(path) >= Len(suffix)
    /\ SubSeq(path, Len(path) - Len(suffix) + 1, Len(path)) = suffix

ArchivePaths ==
    {<<"ffmpeg", ".zip">>, <<"ffmpeg", ".tar", ".gz">>, <<"ffmpeg", ".tar">>,
     <<"ffmpeg", ".gz">>, <<"ffmpeg", ".7z">>, <<"ffmpeg", ".ZIP">>}

\* the file at archive_path: the container it really is, and its members
Archives ==
    [path : ArchivePaths, format : {"zip", "targz", "other"},
     members : SUBSET {"ffmpeg", "ffprobe"}]

AbsentDir == [exists |-> FALSE, entries |-> {}]
DirOf(entries) == [exists |-> TRUE, entries |-> entries]
Directories ==
    {AbsentDir} \cup {DirOf(e) : e \in SUBSET {<<"ffmpeg", "old">>, <<"old.dll", "old">>}}

Extracted(a) == {<<name, "archive">> : name \in a.members}

\* an unpacker that extracts over what the directory already holds
unpackArchive_merge(a, target) ==
    LET made == DirOf(target.entries)
    IN  IF EndsWith(a.path, <<".zip">>)
        THEN IF a.format = "zip"
             THEN [target |-> DirOf({e \in made.entries : e[1] \notin a.members}
                                    \cup Extracted(a)),
                   raised |-> FALSE, echo |-> <<"Unpacking Archive...", " success!">>]
             ELSE [target |-> made, raised |-> TRUE, echo |-> <<"Unpacking Archive...">>]
        ELSE IF EndsWith(a.path, <<".tar", ".gz">>)
        THEN IF a.format = "targz"
             THEN [target |-> DirOf({e \in made.entries : e[1] \notin a.members}
                                    \cup Extracted(a)),
                   raised |-> FALSE, echo |-> <<"Unpacking Archive...", " success!">>]
             ELSE [target |-> made, raised |-> TRUE, echo |-> <<"Unpacking Archive...">>]
        ELSE [target |-> made, raised |-> FALSE,
              echo |-> <<"Unpacking Archive...", " success!">>]

\* an unpacker that takes every .gz for a gzip-compressed tar
unpackArchive_anygz(a, target) ==
    LET info == IF target.exists
                THEN <<"INFO: Replacing existing files with validated ones.">>
                ELSE <<>>
        made == DirOf({})
    IN  IF EndsWith(a.path, <<".zip">>)
        THEN IF a.format = "zip"
             THEN [target |-> DirOf(Extracted(a)), raised |-> FALSE,
                   echo |-> info \o <<"Unpacking Archive...", " success!">>]
             ELSE [target |-> made, raised |-> TRUE,
                   echo |-> info \o <<"Unpacking Archive...">>]
        ELSE IF EndsWith(a.path, <<".gz">>)
        THEN IF a.format = "targz"
             THEN [target |-> DirOf(Extracted(a)), raised |-> FALSE,
                   echo |-> info \o <<"Unpacking Archive...", " success!">>]
             ELSE [target |-> made, raised |-> TRUE,
                   echo |-> info \o <<"Unpacking Archive...">>]
        ELSE [target |-> made, raised |-> FALSE,
              echo |-> info \o <<"Unpacking Archive...", " success!">>]

\* lines 128-145: the target directory is removed and made anew, then the
\* archive is extracted by its suffix; ZipFile and tarfile.open raise on a
\* file that is not the container the suffix names
unpackArchive(a, target) ==
    LET info == IF target.exists
                THEN <<"INFO: Replacing existing files with validated ones.">>
                ELSE <<>>
        made == DirOf({})
    IN  IF EndsWith(a.path, <<".zip">>)
        THEN IF a.format = "zip"
             THEN [target |-> DirOf(Extracted(a)), raised |-> FALSE,
                   echo |-> info \o <<"Unpacking Archive...", " success!">>]
             ELSE [target |-> made, raised |-> TRUE,
                   echo |-> info \o <<"Unpacking Archive...">>]
        ELSE IF EndsWith(a.path, <<".tar", ".gz">>)
        THEN IF a.format = "targz"
             THEN [target |-> DirOf(Extracted(a)), raised |-> FALSE,
                   echo |-> info \o <<"Unpacking Archive...", " success!">>]
             ELSE [target |-> made, raised |-> TRUE,
                   echo |-> info \o <<"Unpacking Archive...">>]
        ELSE [target |-> made, raised |-> FALSE,
              echo |-> info \o <<"Unpacking Archive...", " success!">>]

\* any archive, and any target directory an earlier run may have left
UnpackInit ==
    /\ archive \in Archives
    /\ target_before \in Directories
    /\ target_dir = target_before
    /\ upc = "call"

\* one call of unpackArchive
UnpackArchiveCall ==
    /\ upc = "call"
    /\ LET u == unpackArchive(archive, target_dir)
       IN  /\ target_dir' = u.target
           /\ upc' = IF u.raised THEN "raised" ELSE "success"
    /\ UNCHANGED <<archive, target_before>>

(***************************************************************************)
(* cli(), from line 289: the test data has been obtained                   *)
(***************************************************************************)
\* lines 347-349
supported_types == {"nvidia"}

\* what a session's remote answers, what its server offers as hashes, and
\* what its worker measures
SessionResponses ==
    {[fault |-> "none", status_code |-> 200, content |-> c, written |-> c] :
        c \in {<<1, 2>>, <<2>>}}
    \cup {[fault |-> "none", status_code |-> 404, content |-> <<>>, written |-> <<>>]}

SessionHashs == {<<>>, << <<"md5", "9e107d9d">> >>, << <<"sha256", "a12871fe">> >>}

SessionOutcomes ==
    {[failed |-> TRUE, detail |-> "launch failure", speed |-> 15, rss_kb |-> 100],
     [failed |-> FALSE, detail |-> "", speed |-> 15, rss_kb |-> 200],
     [failed |-> FALSE, detail |-> "", speed |-> 6, rss_kb |-> 200]}

Command(type) == [type |-> type, args |-> "{video_file} {gpu}"]

\* server_data["tests"]: one file with one test, or two files with three
TestFiles(h1, h2) ==
    {<< [name |-> "a", source_url |-> <<"a", ".mkv">>, source_hashs |-> h1,
         data |-> << [id |-> 1,
                      arguments |-> <<Command("nvidia"), Command("intel")>>] >>] >>,
     << [name |-> "a", source_url |-> <<"a", ".mkv">>, source_hashs |-> h1,
         data |-> << [id |-> 1,
                      arguments |-> <<Command("intel"), Command("nvidia")>>],
                     [id |-> 2, arguments |-> <<Command("nvidia")>>] >>],
        [name |-> "b", source_url |-> <<"b", ".mkv">>, source_hashs |-> h2,
         data |-> << [id |-> 3, arguments |-> <<Command("nvidia")>>] >>] >>}

ServerData ==
    {[ffmpeg |-> [ffmpeg_source_url |-> u, ffmpeg_hashs |-> h], tests |-> t] :
        u \in {<<"ffmpeg", ".tar", ".gz">>, <<"ffmpeg", ".7z">>},
        h \in SessionHashs,
        t \in UNION {TestFiles(h1, h2) : h1 \in SessionHashs, h2 \in {<<>>, << <<"sha256", "a12871fe">> >>}}}

\* the file downloaded from ffmpeg_source_url, as unpackArchive finds it:
\* the content <<1, 2>> is the bundle, packed as its suffix says
ArchiveAt(path, content) ==
    [path |-> path,
     format |-> IF content # <<1, 2>> THEN "other"
                ELSE IF EndsWith(path, <<".zip">>) THEN "zip"
                ELSE IF EndsWith(path, <<".tar", ".gz">>) THEN "targz"
                ELSE "other",
     members |-> IF content = <<1, 2>> THEN {"ffmpeg"} ELSE {}]

NoReport == [written |-> FALSE, data |-> <<>>]

CliInit ==
    /\ cpc = "ffmpeg"
    /\ server_data \in ServerData
    /\ disk \in [0..Len(server_data.tests) -> {AbsentFile, FileOf(<<1, 2>>)}]
    /\ ffmpeg_files_before \in {AbsentDir, DirOf({<<"old.dll", "old">>})}
    /\ ffmpeg_files = ffmpeg_files_before
    /\ fi = 1 /\ ti = 1 /\ ki = 1
    /\ benchmark_data = <<>>
    /\ report = NoReport
    /\ acquired = <<>>
    /\ unpacked = FALSE
    /\ confirm = "unasked"
    /\ invocations = 0
    /\ ramplog = <<>>

\* lines 289-300: the ffmpeg bundle is obtained, with notify_on_download True
CliObtainFfmpeg ==
    /\ cpc = "ffmpeg"
    /\ \E response \in SessionResponses :
        LET ffmpeg_data == server_data.ffmpeg
            res == obtainSource(disk[0], TRUE, ffmpeg_data.ffmpeg_hashs, TRUE, response)
        IN  /\ disk' = [disk EXCEPT ![0] = res.file]
            /\ acquired' = Append(acquired, [artifact |-> 0,
                                             hashs |-> ffmpeg_data.ffmpeg_hashs,
                                             res |-> res])
            /\ cpc' = IF res.ret[1] = FALSE THEN "exited" ELSE "unpack"
    /\ UNCHANGED <<server_data, ffmpeg_files_before, ffmpeg_files, fi, ti, ki,
                   benchmark_data, report, unpacked, confirm, invocations, ramplog>>
    /\ UNCHANGED <<rampVars, acqVars, unpackVars>>

\* lines 302-307: the bundle is unpacked into ffmpeg_files; a raise of
\* unpackArchive ends the process
CliUnpack ==
    /\ cpc = "unpack"
    /\ LET u == unpackArchive(ArchiveAt(server_data.ffmpeg.ffmpeg_source_url,
                                        disk[0].content), ffmpeg_files)
       IN  /\ ffmpeg_files' = u.target
           /\ cpc' = IF u.raised THEN "crashed" ELSE "videos"
    /\ unpacked' = TRUE
    /\ fi' = 1
    /\ UNCHANGED <<server_data, disk, ffmpeg_files_before, ti, ki, benchmark_data,
                   report, acquired, confirm, invocations, ramplog>>
    /\ UNCHANGED <<rampVars, acqVars, unpackVars>>

\* lines 312-325: one pass of the loop over the test files, with
\* notify_on_download False
CliObtainVideo ==
    /\ cpc = "videos"
    /\ fi <= Len(server_data.tests)
    /\ \E response \in SessionResponses :
        LET res == obtainSource(disk[fi], TRUE, server_data.tests[fi].source_hashs,
                                FALSE, response)
            success == res.ret[1]
        IN  /\ disk' = [disk EXCEPT ![fi] = res.file]
            /\ acquired' = Append(acquired, [artifact |-> fi,
                                             hashs |-> server_data.tests[fi].source_hashs,
                                             res |-> res])
            /\ cpc' = IF success THEN "videos" ELSE "exited"
            /\ fi' = IF success THEN fi + 1 ELSE fi
    /\ UNCHANGED <<server_data, ffmpeg_files_before, ffmpeg_files, ti, ki,
                   benchmark_data, report, unpacked, confirm, invocations, ramplog>>
    /\ UNCHANGED <<rampVars, acqVars, unpackVars>>

\* a confirmation that goes on whatever the answer
CliConfirm_always ==
    /\ cpc = "videos"
    /\ fi > Len(server_data.tests)
    /\ \E answer \in BOOLEAN :
        /\ confirm' = IF answer THEN "yes" ELSE "no"
        /\ cpc' = "bench"
    /\ benchmark_data' = <<>>
    /\ fi' = 1 /\ ti' = 1 /\ ki' = 1
    /\ UNCHANGED <<server_data, disk, ffmpeg_files_before, ffmpeg_files, report,
                   acquired, unpacked, invocations, ramplog>>
    /\ UNCHANGED <<rampVars, acqVars, unpackVars>>

\* lines 326-334: the loop over the files is done; the user is asked
CliConfirm ==
    /\ cpc = "videos"
    /\ fi > Len(server_data.tests)
    /\ \E answer \in BOOLEAN :
        /\ confirm' = IF answer THEN "yes" ELSE "no"
        /\ cpc' = IF ~answer THEN "exited" ELSE "bench"
    /\ benchmark_data' = <<>>
    /\ fi' = 1 /\ ti' = 1 /\ ki' = 1
    /\ UNCHANGED <<server_data, disk, ffmpeg_files_before, ffmpeg_files, report,
                   acquired, unpacked, invocations, ramplog>>
    /\ UNCHANGED <<rampVars, acqVars, unpackVars>>

\* lines 335-356: the three nested loops move on to the next command; a
\* command of a supported type starts benchmark() (lines 149-153)
CliNextCommand ==
    /\ cpc = "bench"
    /\ fi <= Len(server_data.tests)
    /\ LET tests == server_data.tests[fi].data
       IN  IF ti > Len(tests)
           THEN /\ fi' = fi + 1 /\ ti' = 1 /\ ki' = 1
                /\ UNCHANGED <<cpc, rampVars>>
           ELSE IF ki > Len(tests[ti].arguments)
           THEN /\ ti' = ti + 1 /\ ki' = 1
                /\ UNCHANGED <<cpc, fi, rampVars>>
           ELSE IF tests[ti].arguments[ki].type \notin supported_types
           THEN /\ ki' = ki + 1
                /\ UNCHANGED <<cpc, fi, ti, rampVars>>
           ELSE /\ cpc' = "ramp"
                /\ runs' = <<>>
                /\ total_workers' = 1
                /\ run' = TRUE
                /\ last_Speed' = -5
                /\ failure_reason' = <<>>
                /\ calls' = <<>>
                /\ UNCHANGED <<fi, ti, ki, bpc, ret>>
    /\ UNCHANGED <<server_data, disk, ffmpeg_files_before, ffmpeg_files,
                   benchmark_data, report, acquired, unpacked, confirm, invocations,
                   ramplog>>
    /\ UNCHANGED <<acqVars, unpackVars>>

\* lines 158-175, in the session: one pass of benchmark()'s loop
CliBenchmarkStep ==
    /\ cpc = "ramp"
    /\ run
    /\ total_workers <= MaxSessionWorkers
    /\ \E o \in SessionOutcomes :
        LET st == benchmark_loop(benchmark_locals, workMan(total_workers, o))
        IN  /\ runs' = st.runs
            /\ total_workers' = st.total_workers
            /\ run' = st.run
            /\ last_Speed' = st.last_Speed
            /\ failure_reason' = st.failure_reason
            /\ calls' = Append(calls, [n |-> total_workers, out |-> o])
    /\ invocations' = invocations + 1
    /\ UNCHANGED <<bpc, ret>>
    /\ UNCHANGED <<cpc, server_data, disk, ffmpeg_files_before, ffmpeg_files, fi, ti,
                   ki, benchmark_data, report, acquired, unpacked, confirm, ramplog>>
    /\ UNCHANGED <<acqVars, unpackVars>>

\* a session that reports valid ramps only
CliBenchmarkReturn_validonly ==
    /\ cpc = "ramp"
    /\ ~run
    /\ LET result == benchmark_result(benchmark_locals)
           test == server_data.tests[fi].data[ti]
           command == test.arguments[ki]
           test_data == [id |-> test.id, type |-> command.type,
                         selected_gpu |-> 0, selected_cpu |-> 0,
                         runs |-> result[2], results |-> result[3]]
       IN  benchmark_data' = IF result[1] THEN Append(benchmark_data, test_data)
                             ELSE benchmark_data
    /\ ramplog' = Append(ramplog, calls)
    /\ ki' = ki + 1
    /\ cpc' = "bench"
    /\ UNCHANGED <<server_data, disk, ffmpeg_files_before, ffmpeg_files, fi, ti,
                   report, acquired, unpacked, confirm, invocations>>
    /\ UNCHANGED <<rampVars, acqVars, unpackVars>>

\* lines 176-186 and 356-365: benchmark() returns and its runs and result
\* are appended to benchmark_data
CliBenchmarkReturn ==
    /\ cpc = "ramp"
    /\ ~run
    /\ LET result == benchmark_result(benchmark_locals)
           test == server_data.tests[fi].data[ti]
           command == test.arguments[ki]
           test_data == [id |-> test.id, type |-> command.type,
                         selected_gpu |-> 0, selected_cpu |-> 0,
                         runs |-> result[2], results |-> result[3]]
       IN  benchmark_data' = Append(benchmark_data, test_data)
    /\ ramplog' = Append(ramplog, calls)
    /\ ki' = ki + 1
    /\ cpc' = "bench"
    /\ UNCHANGED <<server_data, disk, ffmpeg_files_before, ffmpeg_files, fi, ti,
                   report, acquired, unpacked, confirm, invocations>>
    /\ UNCHANGED <<rampVars, acqVars, unpackVars>>

\* lines 366-373: the loops are done and the report is written
CliOutput ==
    /\ cpc = "bench"
    /\ fi > Len(server_data.tests)
    /\ report' = [written |-> TRUE,
                  data |-> [token |-> "not_provided_yet", hwinfo |-> "system_info",
                            tests |-> benchmark_data]]
    /\ cpc' = "done"
    /\ UNCHANGED <<server_data, disk, ffmpeg_files_before, ffmpeg_files, fi, ti, ki,
                   benchmark_data, acquired, unpacked, confirm, invocations, ramplog>>
    /\ UNCHANGED <<rampVars, acqVars, unpackVars>>

(***************************************************************************)
(* Specifications                                                          *)
(***************************************************************************)
\* the part of the state the other specification leaves alone
RampIdle ==
    /\ runs = <<>> /\ total_workers = 1 /\ run = TRUE /\ last_Speed = -5
    /\ failure_reason = <<>> /\ bpc = "idle" /\ ret = NoReturn /\ calls = <<>>

AcquireIdle ==
    /\ source_hashs = <<>> /\ notify = FALSE /\ file = AbsentFile
    /\ dirExists = FALSE /\ ncalls = 0
    /\ last = [pre |-> AbsentFile, res |-> <<>>]
    /\ prev = [pre |-> AbsentFile, res |-> <<>>]

UnpackIdle ==
    /\ archive = [path |-> <<"ffmpeg", ".zip">>, format |-> "zip", members |-> {}]
    /\ target_before = AbsentDir /\ target_dir = AbsentDir /\ upc = "idle"

CliIdle ==
    /\ cpc = "idle"
    /\ server_data = [ffmpeg |-> <<>>, tests |-> <<>>]
    /\ disk = <<>>
    /\ ffmpeg_files_before = AbsentDir /\ ffmpeg_files = AbsentDir
    /\ fi = 1 /\ ti = 1 /\ ki = 1
    /\ benchmark_data = <<>> /\ report = NoReport
    /\ acquired = <<>> /\ unpacked = FALSE /\ confirm = "unasked"
    /\ invocations = 0 /\ ramplog = <<>>

InitRamp == RampInit /\ AcquireIdle /\ UnpackIdle /\ CliIdle

NextRamp ==
    \/ BenchmarkStep /\ UNCHANGED <<acqVars, unpackVars, cliVars>>
    \/ BenchmarkReturn /\ UNCHANGED <<acqVars, unpackVars, cliVars>>

SpecRamp == InitRamp /\ [][NextRamp]_vars

\* benchmark() is sequential code: once the loop has ended it goes on to
\* build and return the result
SpecRampFair ==
    InitRamp /\ [][NextRamp]_vars
    /\ WF_vars(BenchmarkReturn /\ UNCHANGED <<acqVars, unpackVars, cliVars>>)

InitAcquire == AcquireInit /\ RampIdle /\ UnpackIdle /\ CliIdle

NextAcquire == ObtainSourceCall /\ UNCHANGED <<rampVars, unpackVars, cliVars>>

SpecAcquire == InitAcquire /\ [][NextAcquire]_vars

InitUnpack == UnpackInit /\ RampIdle /\ AcquireIdle /\ CliIdle

NextUnpack == UnpackArchiveCall /\ UNCHANGED <<rampVars, acqVars, cliVars>>

SpecUnpack == InitUnpack /\ [][NextUnpack]_vars

InitCli == CliInit /\ RampIdle /\ AcquireIdle /\ UnpackIdle

NextCli ==
    \/ CliObtainFfmpeg
    \/ CliUnpack
    \/ CliObtainVideo
    \/ CliConfirm
    \/ CliNextCommand
    \/ CliBenchmarkStep
    \/ CliBenchmarkReturn
    \/ CliOutput

SpecCli == InitCli /\ [][NextCli]_vars

(***************************************************************************)
(* Properties of benchmark(), under SpecRamp                               *)
(***************************************************************************)
\* what lines 161 and 164 reject
Rejected(o) == o.failed \/ o.speed < RealTime
Accepted(o) == ~o.failed /\ o.speed >= RealTime
TooSlow(o) == ~o.failed /\ o.speed < RealTime

\* C1: in every state of benchmark() the worker counts of the samples in
\* runs are 1, 2, ..., Len(runs) in that order, and the runs returned are
\* those samples.
RampMonotonicity ==
    /\ \A i \in 1..Len(runs) : runs[i].workers = i
    /\ bpc = "returned" => ret[2] = runs

RampMonotonicityWitness ==
    /\ bpc = "returned"
    /\ Len(runs) >= 3
    /\ \E i \in 1..Len(calls) : Rejected(calls[i].out)

\* C2: when the worker accepts counts 1..k and is too slow at count k+1, no
\* further invocation is made and benchmark() returns valid, the k samples,
\* max_streams = k and failure_reasons = ["performance"].
StoppingCorrectness ==
    \A k \in 1..Len(calls) :
        ( /\ Len(calls) >= k + 1
          /\ \A i \in 1..k : calls[i].n = i /\ Accepted(calls[i].out)
          /\ calls[k + 1].n = k + 1 /\ TooSlow(calls[k + 1].out) )
        => /\ Len(calls) = k + 1
           /\ ~run
           /\ Len(runs) = k
           /\ failure_reason = <<"performance">>
           /\ bpc = "returned" =>
                /\ ret[1] = TRUE
                /\ Len(ret[2]) = k
                /\ ret[3].max_streams = k
                /\ ret[3].failure_reasons = <<"performance">>

StoppingCorrectnessWitness ==
    /\ bpc = "returned"
    /\ Len(calls) = 4
    /\ \A i \in 1..3 : Accepted(calls[i].out)
    /\ TooSlow(calls[4].out) /\ calls[4].out.speed = 6

\* C3: a returned non-empty ramp reports as max_streams the worker count of
\* its last accepted sample, which is the count before the one that was
\* rejected.
MaxStreamsLastAccepted ==
    (bpc = "returned" /\ runs # <<>>) =>
        /\ ret[3].max_streams = runs[Len(runs)].workers
        /\ ret[3].max_streams = calls[Len(calls) - 1].n
        /\ Accepted(calls[Len(calls) - 1].out)
        /\ Rejected(calls[Len(calls)].out)
        /\ ret[3].max_streams # calls[Len(calls)].n

MaxStreamsLastAcceptedWitness ==
    /\ bpc = "returned"
    /\ Len(runs) >= 2
    /\ calls[Len(calls)].out.failed

\* C4: benchmark() returns valid = false exactly when runs is empty, which is
\* exactly when the invocation at count 1 was rejected; it then returns
\* (False, [], {}).
ValidIffNonEmpty ==
    bpc = "returned" =>
        /\ ret[1] = (runs # <<>>)
        /\ (runs = <<>>) = (calls[1].n = 1 /\ Rejected(calls[1].out))
        /\ runs = <<>> => ret = <<FALSE, <<>>, <<>>>>

ValidIffNonEmptyWitness ==
    /\ bpc = "returned"
    /\ ret[1] = FALSE
    /\ calls[1].out.failed

\* C5: the single-worker fields of a returned summary are the speed and
\* rss_kb of the last element of runs, the sample of the last accepted
\* invocation.
SummaryDerivation ==
    (bpc = "returned" /\ ret[2] # <<>>) =>
        LET final == ret[2][Len(ret[2])]
            accepted == calls[Len(calls) - 1].out
        IN  /\ ret[3].single_worker_speed = final.speed
            /\ ret[3].single_worker_rss_kb = final.rss_kb
            /\ final.speed = accepted.speed
            /\ final.rss_kb = accepted.rss_kb

SummaryDerivationWitness ==
    /\ bpc = "returned"
    /\ Len(runs) >= 2
    /\ runs[1].speed # runs[Len(runs)].speed
    /\ runs[1].rss_kb # runs[Len(runs)].rss_kb

AllAccepted == \A i \in 1..Len(calls) : Accepted(calls[i].out)
SomeRejected == \E i \in 1..Len(calls) : Rejected(calls[i].out)

\* the loop has ended exactly when an invocation was rejected, benchmark()
\* returns only then, and while every invocation was accepted the loop is
\* still running with the next count one above the number of invocations
RampStopsOnlyOnRejection ==
    /\ (~run) = SomeRejected
    /\ bpc = "returned" => SomeRejected
    /\ AllAccepted =>
            /\ run
            /\ bpc = "loop"
            /\ total_workers = Len(calls) + 1
            /\ Len(runs) = Len(calls)

\* C17: benchmark() stops exactly on an invocation that reports an error or
\* a speed below 1.0; once one does, it returns; while none does, the loop
\* goes on and the worker count rises with every invocation (under
\* SpecRampFair).
RampTermination ==
    /\ []RampStopsOnlyOnRejection
    /\ SomeRejected ~> (bpc = "returned")

RampTerminationWitness ==
    /\ AllAccepted
    /\ Len(calls) = MaxWorkers
    /\ run
    /\ total_workers = MaxWorkers + 1

\* C19: the worker is invoked with the counts 1, 2, ... in that order, each
\* once; the invocations before the last were accepted and gave runs its
\* samples, and after a rejected invocation no other follows.
SequentialInvocations ==
    /\ \A i \in 1..Len(calls) : calls[i].n = i
    /\ \A i \in 1..Len(runs) :
            /\ Accepted(calls[i].out)
            /\ runs[i] = workMan(i, calls[i].out)[2]
    /\ Len(calls) = Len(runs) + (IF run THEN 0 ELSE 1)
    /\ run => total_workers = Len(calls) + 1
    /\ ~run =>
            /\ Rejected(calls[Len(calls)].out)
            /\ total_workers = Len(calls)
            /\ ~ENABLED BenchmarkStep

SequentialInvocationsWitness ==
    /\ bpc = "returned"
    /\ Len(runs) = 2
    /\ Len(calls) = 3
    /\ calls[3].n = 3

\* C20: failure_reason is empty while the loop runs and holds one entry once
\* it has stopped: the error detail when the stopping invocation reported an
\* error, whatever its speed, and "performance" when it reported none and a
\* speed below 1.0; that invocation's sample is not in runs.
FailureReasons ==
    /\ run => failure_reason = <<>>
    /\ ~run =>
        LET o == calls[Len(calls)].out
        IN  /\ Len(failure_reason) = 1
            /\ o.failed => failure_reason[1] = o.detail
            /\ ~o.failed => (failure_reason[1] = "performance" /\ o.speed < RealTime)
            /\ Len(runs) = Len(calls) - 1
            /\ \A i \in 1..Len(runs) : runs[i].speed >= RealTime
    /\ (bpc = "returned" /\ ret[1]) => ret[3].failure_reasons = failure_reason

FailureReasonsWitness ==
    /\ bpc = "returned"
    /\ ret[1]
    /\ calls[Len(calls)].out.failed
    /\ calls[Len(calls)].out.speed >= RealTime
    /\ ret[3].failure_reasons = <<"parse failure">>

(***************************************************************************)
(* Properties of obtainSource(), under SpecAcquire                         *)
(***************************************************************************)
\* the descriptor offers sha256, and the digest it expects
HasSha256 == \E i \in 1..Len(source_hashs) : source_hashs[i][1] = "sha256"
ExpectedDigest ==
    source_hashs[CHOOSE i \in 1..Len(source_hashs) : source_hashs[i][1] = "sha256"][2]
Matches(c) == calculate_sha256(c) = ExpectedDigest
ValidCopy(f) == f.exists /\ Matches(f.content)
Stale(f) == f.exists /\ ~Matches(f.content)
\* the GET answered 200; and its body was written to file_path in full
GetSucceeded(r) == r.fault \in {"none", "open", "write"} /\ r.status_code = 200
Written(r) == r.fault = "none" /\ r.status_code = 200

StaleSelfHealingAsClaimed ==
    (ncalls >= 1 /\ HasSha256 /\ Stale(last.pre)) =>
        /\ last.res.removes_stale = 1
        /\ last.res.gets = 1
        /\ last.res.at \in {"downloaded", "checksum"}

\* C7: a stale file is deleted and one GET is made; the call ends Downloaded
\* when the body is written and matches, Failed("Invalid Checksum!") when it
\* is written and does not match, and failed with the status code or
\* "Unknown Error!" when the GET or the write fails.
StaleSelfHealing ==
    (ncalls >= 1 /\ HasSha256 /\ Stale(last.pre)) =>
        LET r == last.res.response
        IN  /\ last.res.removes_stale = 1
            /\ last.res.gets = 1
            /\ (Written(r) /\ Matches(r.content)) =>
                    /\ last.res.at = "downloaded"
                    /\ last.res.ret = <<TRUE, file_path>>
                    /\ file = FileOf(r.content)
            /\ (Written(r) /\ ~Matches(r.content)) =>
                    /\ last.res.at = "checksum"
                    /\ last.res.ret = <<FALSE, "Invalid Checksum!">>
                    /\ ~file.exists
            /\ ~Written(r) =>
                    /\ last.res.at \in {"status", "fault"}
                    /\ last.res.ret[1] = FALSE

StaleSelfHealingWitness ==
    /\ ncalls >= 1
    /\ HasSha256
    /\ Stale(last.pre)
    /\ last.res.at = "downloaded"
    /\ file.content # last.pre.content

\* C8: after a call with a supported algorithm offered, no file is at
\* file_path or the file there has the expected digest.
NeverLeavesUnverified ==
    (ncalls >= 1 /\ HasSha256) => (~file.exists \/ Matches(file.content))

\* C9, as claimed: a call deletes at most once.
AtMostOneDeletion ==
    ncalls >= 1 => last.res.removes <= 1

\* C9: a call deletes at most once before the GET (the stale file) and at
\* most once after it (the download that fails verification); it deletes
\* twice exactly when a stale file is followed by a written download that
\* does not match either.
AtMostTwoDeletions ==
    ncalls >= 1 =>
        LET r == last.res.response
        IN  /\ last.res.removes_stale \in {0, 1}
            /\ last.res.removes - last.res.removes_stale \in {0, 1}
            /\ (last.res.removes = 2) =
                    (HasSha256 /\ Stale(last.pre) /\ Written(r) /\ ~Matches(r.content))

AtMostTwoDeletionsWitness ==
    /\ ncalls >= 1
    /\ last.res.removes = 2
    /\ last.res.at = "checksum"

\* C10: with an empty descriptor a file already at file_path is returned
\* without a hash computed, a GET made or the file touched, and a body that
\* was downloaded and written is returned whatever its content.
NoHashPassthrough ==
    (ncalls >= 1 /\ source_hashs = <<>>) =>
        /\ last.pre.exists =>
                /\ last.res.at = "cached"
                /\ last.res.ret = <<TRUE, file_path>>
                /\ last.res.hashes = 0
                /\ last.res.gets = 0
                /\ last.res.removes = 0
                /\ file = last.pre
        /\ (~last.pre.exists /\ Written(last.res.response)) =>
                /\ last.res.at = "downloaded"
                /\ last.res.ret = <<TRUE, file_path>>
                /\ last.res.removes = 0
                /\ file = FileOf(last.res.response.content)

NoHashPassthroughWitness ==
    /\ ncalls >= 2
    /\ source_hashs = <<>>
    /\ ~prev.pre.exists
    /\ prev.res.at = "downloaded"
    /\ last.res.at = "cached"
    /\ file.content = <<1>>

\* the pair the allow-list's order of precedence picks from a descriptor
KeyIndex(hd, alg) == CHOOSE i \in 1..Len(hd) : hd[i][1] = alg
HasKey(hd, alg) == \E i \in 1..Len(hd) : hd[i][1] = alg
AllowListChoice(hd) ==
    LET present == {j \in 1..Len(supported_hashes) : HasKey(hd, supported_hashes[j])}
    IN  IF present = {}
        THEN <<None, None>>
        ELSE LET alg == supported_hashes[Min(present)]
             IN  <<alg, hd[KeyIndex(hd, alg)][2]>>

\* C14: the pair match_hash hands to obtainSource is the first allow-listed
\* algorithm that is a key of the descriptor with the descriptor's digest for
\* it, (None, None) for an empty descriptor and for one with no allow-listed
\* key, and the same with the output flag set or not.
MatchHashContract ==
    ncalls >= 1 =>
        /\ last.res.negotiated = AllowListChoice(source_hashs)
        /\ source_hashs = <<>> => last.res.negotiated = <<None, None>>
        /\ (source_hashs # <<>> /\ ~HasKey(source_hashs, "sha256")) =>
                last.res.negotiated = <<None, None>>
        /\ HasKey(source_hashs, "sha256") =>
                last.res.negotiated = <<"sha256", ExpectedDigest>>

MatchHashContractWitness ==
    /\ ncalls >= 1
    /\ ~notify
    /\ Len(source_hashs) = 2
    /\ source_hashs[1][1] = "md5"
    /\ last.res.negotiated = <<"sha256", source_hashs[2][2]>>

\* C18: a call makes one GET at most, and none exactly when a file is at
\* file_path that matches or cannot be verified; a transport fault and a
\* non-200 status are returned as failures after that one GET, and nothing is
\* at file_path after a non-200 status.
SingleGet ==
    ncalls >= 1 =>
        LET r == last.res
        IN  /\ r.gets \in {0, 1}
            /\ (r.gets = 0) =
                    (last.pre.exists /\ (~HasSha256 \/ Matches(last.pre.content)))
            /\ r.gets = 0 =>
                    /\ r.at = "cached"
                    /\ r.response = NoResponse
                    /\ file = last.pre
            /\ (r.gets = 1 /\ r.response.fault = "transport") =>
                    /\ r.at = "fault"
                    /\ r.ret = <<FALSE, "Unknown Error!">>
                    /\ ~file.exists
            /\ (r.gets = 1 /\ r.response.fault = "none" /\ r.response.status_code # 200) =>
                    /\ r.at = "status"
                    /\ r.ret = <<FALSE, r.response.status_code>>
                    /\ ~file.exists

SingleGetWitness ==
    /\ ncalls >= 1
    /\ last.pre.exists
    /\ last.res.gets = 1
    /\ last.res.response.status_code = 404
    /\ ~file.exists

(***************************************************************************)
(* Properties of unpackArchive(), under SpecUnpack                         *)
(***************************************************************************)
SupportedSuffix(path) == EndsWith(path, <<".zip">>) \/ EndsWith(path, <<".tar", ".gz">>)

\* C11, as claimed: with a suffix that is neither .zip nor .tar.gz the call
\* leaves the target directory and its contents as they were.
UnsupportedSuffixNoOp ==
    (upc # "call" /\ ~SupportedSuffix(archive.path)) => target_dir = target_before

\* C11: with a suffix that is neither .zip nor .tar.gz nothing is extracted
\* and nothing is raised, but the target directory is still removed and made
\* anew: it exists and is empty afterwards, whatever it held.
UnsupportedSuffixEmptiesTarget ==
    (upc # "call" /\ ~SupportedSuffix(archive.path)) =>
        /\ upc = "success"
        /\ target_dir = DirOf({})

UnsupportedSuffixEmptiesTargetWitness ==
    /\ upc = "success"
    /\ archive.path = <<"ffmpeg", ".gz">>
    /\ archive.format = "targz"
    /\ archive.members # {}
    /\ target_before.entries # {}
    /\ target_dir = DirOf({})

\* C12: after a call that succeeds on a .zip or .tar.gz archive the target
\* directory holds the archive's members and nothing else; no entry it held
\* before remains.
ArchiveReplace ==
    (upc = "success" /\ SupportedSuffix(archive.path)) =>
        /\ target_dir.exists
        /\ target_dir.entries = {<<name, "archive">> : name \in archive.members}
        /\ target_dir.entries \cap target_before.entries = {}

ArchiveReplaceWitness ==
    /\ upc = "success"
    /\ archive.path = <<"ffmpeg", ".tar", ".gz">>
    /\ archive.members = {"ffmpeg"}
    /\ target_before.entries = {<<"ffmpeg", "old">>, <<"old.dll", "old">>}
    /\ target_dir.entries = {<<"ffmpeg", "archive">>}

(***************************************************************************)
(* The session                                                             *)
(***************************************************************************)
Unverifiable(hashs) == ~HasKey(hashs, "sha256")

Advisory(hashs) ==
    IF hashs = <<>>
    THEN <<"Note: This file cannot be hash-verified!">>
    ELSE <<"Note: This Client cannot hash-verify this file!">>

\* C13: every obtainSource call of a session that verification cannot cover
\* (an empty descriptor, or one without a supported algorithm) shows its
\* advisory: the no-hash one for the empty descriptor, the unsupported one
\* otherwise; the calls for the test files included.
AdvisoryAlwaysShown ==
    \A i \in 1..Len(acquired) :
        Unverifiable(acquired[i].hashs) =>
            InList(Advisory(acquired[i].hashs), acquired[i].res.echo)

Succeeded(a) == a.res.ret[1]
FfmpegFailed == Len(acquired) >= 1 /\ ~Succeeded(acquired[1])
VideoFailed == \E i \in 2..Len(acquired) : ~Succeeded(acquired[i])
BenchmarkBegun ==
    cpc \in {"bench", "ramp", "done"} \/ invocations > 0 \/ benchmark_data # <<>>

\* C15: a session obtains the ffmpeg bundle first and then the test files
\* in order; benchmarking begins only after all of these calls succeeded,
\* the bundle was unpacked and the user confirmed.  A failed ffmpeg call
\* ends the session with nothing unpacked, ffmpeg_files as it was found and
\* no test file fetched; a failed test file or a declined confirmation ends
\* it with no worker invoked and no report written.
SessionOrdering ==
    /\ \A i \in 1..Len(acquired) : acquired[i].artifact = i - 1
    /\ \A i \in 1..Len(acquired) : i < Len(acquired) => Succeeded(acquired[i])
    /\ BenchmarkBegun =>
        /\ Len(acquired) = 1 + Len(server_data.tests)
        /\ \A i \in 1..Len(acquired) : Succeeded(acquired[i])
        /\ unpacked
        /\ confirm = "yes"
    /\ unpacked => (Len(acquired) >= 1 /\ Succeeded(acquired[1]))
    /\ FfmpegFailed =>
        /\ cpc = "exited"
        /\ ~unpacked
        /\ ffmpeg_files = ffmpeg_files_before
        /\ Len(acquired) = 1
        /\ \A i \in 1..Len(server_data.tests) : disk[i] \in {AbsentFile, FileOf(<<1, 2>>)}
        /\ ~BenchmarkBegun
        /\ ~report.written
    /\ (VideoFailed \/ confirm = "no") =>
        /\ cpc = "exited"
        /\ ~BenchmarkBegun
        /\ ~report.written
    /\ report.written => cpc = "done"

SessionOrderingWitness ==
    /\ cpc = "exited"
    /\ FfmpegFailed
    /\ ffmpeg_files_before.entries # {}
    /\ Len(server_data.tests) = 2

SessionOrderingDeclinedWitness ==
    /\ cpc = "exited"
    /\ confirm = "no"
    /\ Len(acquired) = 3

RECURSIVE CombosOfCommands(_, _)
CombosOfCommands(id, arguments) ==
    IF arguments = <<>>
    THEN <<>>
    ELSE (IF Head(arguments).type \in supported_types
          THEN << [id |-> id, type |-> Head(arguments).type] >>
          ELSE <<>>) \o CombosOfCommands(id, Tail(arguments))

RECURSIVE CombosOfTests(_)
CombosOfTests(tests) ==
    IF tests = <<>>
    THEN <<>>
    ELSE CombosOfCommands(Head(tests).id, Head(tests).arguments)
         \o CombosOfTests(Tail(tests))

RECURSIVE CombosOfFiles(_)
CombosOfFiles(files) ==
    IF files = <<>>
    THEN <<>>
    ELSE CombosOfTests(Head(files).data) \o CombosOfFiles(Tail(files))

\* the samples of a ramp's invocations but the last, which ended it
SamplesOf(log) ==
    [j \in 1..(Len(log) - 1) |->
        [workers |-> log[j].n, speed |-> log[j].out.speed, rss_kb |-> log[j].out.rss_kb]]

ReasonOf(o) == IF o.failed THEN o.detail ELSE "performance"

\* C16: a worker error at count k+1 after k accepted samples ends only its
\* own ramp: that ramp's entry carries the k samples in runs and, when
\* k >= 1, the error detail as the one element of failure_reasons (with
\* k = 0 the results are the empty dict), and the session goes on to the
\* next combination.  The entries of benchmark_data are, in matrix order,
\* one per supported (file, test, command) combination reached so far, and
\* the report written at the end holds one entry for every supported
\* combination, the invalid ramps (runs = [], results = {}) included.
OneEntryPerCombination ==
    LET combos == CombosOfFiles(server_data.tests)
    IN  /\ Len(benchmark_data) = Len(ramplog)
        /\ Len(benchmark_data) <= Len(combos)
        /\ \A i \in 1..Len(benchmark_data) :
            LET e == benchmark_data[i]
                log == ramplog[i]
                k == Len(log) - 1
                ended == log[Len(log)].out
            IN  /\ e.id = combos[i].id
                /\ e.type = combos[i].type
                /\ e.selected_gpu = 0 /\ e.selected_cpu = 0
                /\ Len(log) >= 1
                /\ \A j \in 1..k : Accepted(log[j].out)
                /\ Rejected(ended)
                /\ e.runs = SamplesOf(log)
                /\ k = 0 => e.results = <<>>
                /\ k >= 1 =>
                    /\ e.results.failure_reasons = <<ReasonOf(ended)>>
                    /\ e.results.max_streams = k
                /\ cpc \notin {"exited", "crashed"}
        /\ cpc = "done" =>
            /\ report.written
            /\ report.data.tests = benchmark_data
            /\ Len(benchmark_data) = Len(combos)
        /\ (cpc = "bench" /\ fi > Len(server_data.tests)) =>
            Len(benchmark_data) = Len(combos)

OneEntryPerCombinationWitness ==
    /\ cpc = "done"
    /\ Len(report.data.tests) = 3
    /\ report.data.tests[1].runs = <<>>
    /\ report.data.tests[1].results = <<>>
    /\ ramplog[1][1].out.failed
    /\ Len(report.data.tests[2].runs) = 1
    /\ report.data.tests[2].results.failure_reasons = <<"launch failure">>
    /\ Len(report.data.tests[3].runs) = 1
    /\ report.data.tests[3].results.failure_reasons = <<"performance">>

====
